---- MODULE Spec2Model ----
(***************************************************************************)
(* Model of src/main.py: a Dash application that lists the schedule files  *)
(* of the directory "json", renders the selected one as a Gantt chart,     *)
(* accepts uploads into that directory and exports the chart as a PNG.     *)
(*                                                                         *)
(* File contents are sequences of JSON tokens, one token standing for one  *)
(* unit of file length.  File names are sequences of name pieces, an       *)
(* extension such as ".json" being one piece.                              *)
(***************************************************************************)
EXTENDS Integers, Sequences, FiniteSets, TLC

(***************************************************************************)
(* Bounds of the model.                                                    *)
(***************************************************************************)
MaxOps == 2
MaxRaceOps == 2
MaxSections == 2
MaxTasks == 2

(***************************************************************************)
(* JSON tokens and Python values.                                          *)
(***************************************************************************)
\* A token is a punctuation mark, a string, a number or a literal name.
Token(k, s, n) == [k |-> k, s |-> s, n |-> n]
P(c) == Token("p", c, 0)
S(s) == Token("s", s, 0)
N(n) == Token("n", "", n)
L(x) == Token("l", x, 0)

\* A value carries its type t and, in the field of that type, its content:
\* s a string, n an integer, b a boolean, q a list, f a dict, p a file name.
Value(t, s, n, b, q, f, p) == [t |-> t, s |-> s, n |-> n, b |-> b, q |-> q, f |-> f, p |-> p]
JNull == Value("null", "", 0, FALSE, <<>>, <<>>, <<>>)
JStr(s) == Value("str", s, 0, FALSE, <<>>, <<>>, <<>>)
JInt(n) == Value("int", "", n, FALSE, <<>>, <<>>, <<>>)
JBool(b) == Value("bool", "", 0, b, <<>>, <<>>, <<>>)
JList(q) == Value("list", "", 0, FALSE, q, <<>>, <<>>)
JDict(f) == Value("dict", "", 0, FALSE, <<>>, f, <<>>)
FName(p) == Value("fname", "", 0, FALSE, <<>>, <<>>, p)

ParseFail == [ok |-> FALSE, val |-> JNull, next |-> 0]
ParseOk(val, next) == [ok |-> TRUE, val |-> val, next |-> next]

IsP(toks, i, c) == i <= Len(toks) /\ toks[i].k = "p" /\ toks[i].s = c

RECURSIVE ParseValue(_, _)
RECURSIVE ParseMembers(_, _, _)
RECURSIVE ParseElements(_, _, _)

\* json's object body after "{": "key" : value ( , "key" : value )* }
\* A repeated key keeps the last value, as Python's dict does.
ParseMembers(toks, i, acc) ==
  IF i + 1 > Len(toks) \/ toks[i].k # "s" \/ ~IsP(toks, i + 1, ":")
  THEN ParseFail
  ELSE LET r == ParseValue(toks, i + 2)
           acc2 == (toks[i].s :> r.val) @@ acc
       IN  IF ~r.ok THEN ParseFail
           ELSE IF IsP(toks, r.next, ",") THEN ParseMembers(toks, r.next + 1, acc2)
           ELSE IF IsP(toks, r.next, "}") THEN ParseOk(JDict(acc2), r.next + 1)
           ELSE ParseFail

\* json's array body after "[": value ( , value )* ]
ParseElements(toks, i, acc) ==
  LET r == ParseValue(toks, i)
      acc2 == Append(acc, r.val)
  IN  IF ~r.ok THEN ParseFail
      ELSE IF IsP(toks, r.next, ",") THEN ParseElements(toks, r.next + 1, acc2)
      ELSE IF IsP(toks, r.next, "]") THEN ParseOk(JList(acc2), r.next + 1)
      ELSE ParseFail

ParseValue(toks, i) ==
  IF i > Len(toks) THEN ParseFail
  ELSE LET tk == toks[i] IN
    CASE tk.k = "s" -> ParseOk(JStr(tk.s), i + 1)
      [] tk.k = "n" -> ParseOk(JInt(tk.n), i + 1)
      [] tk.k = "l" ->
           IF tk.s = "true" THEN ParseOk(JBool(TRUE), i + 1)
           ELSE IF tk.s = "false" THEN ParseOk(JBool(FALSE), i + 1)
           ELSE IF tk.s = "null" THEN ParseOk(JNull, i + 1)
           ELSE ParseFail
      [] tk.k = "p" /\ tk.s = "{" ->
           IF IsP(toks, i + 1, "}") THEN ParseOk(JDict(<<>>), i + 2)
           ELSE ParseMembers(toks, i + 1, <<>>)
      [] tk.k = "p" /\ tk.s = "[" ->
           IF IsP(toks, i + 1, "]") THEN ParseOk(JList(<<>>), i + 2)
           ELSE ParseElements(toks, i + 1, <<>>)
      [] OTHER -> ParseFail

\* json.load: the whole text must be one JSON value.
json_load(toks) ==
  LET r == ParseValue(toks, 1)
  IN  IF r.ok /\ r.next = Len(toks) + 1
      THEN [err |-> "", val |-> r.val]
      ELSE [err |-> "JSONDecodeError", val |-> JNull]

(***************************************************************************)
(* Python's view of a parsed value: truthiness, str(), d[key], d.get(),    *)
(* iteration.  An error is the name of the exception raised, "" is none.   *)
(***************************************************************************)
Truthy(val) ==
  CASE val.t = "bool" -> val.b
    [] val.t = "int" -> val.n # 0
    [] val.t = "str" -> val.s # ""
    [] val.t = "list" -> Len(val.q) > 0
    [] val.t = "dict" -> DOMAIN val.f # {}
    [] OTHER -> FALSE

\* str(x) as the f-string of a task name computes it.  The repr of a list or
\* a dict is abbreviated to its brackets.
PyStr(val) ==
  CASE val.t = "str" -> val.s
    [] val.t = "int" -> ToString(val.n)
    [] val.t = "bool" -> IF val.b THEN "True" ELSE "False"
    [] val.t = "null" -> "None"
    [] val.t = "list" -> "[..]"
    [] OTHER -> "{..}"

\* val[key] with a string key
Subscript(val, key) ==
  IF val.t # "dict" THEN [err |-> "TypeError", val |-> JNull]
  ELSE IF key \notin DOMAIN val.f THEN [err |-> "KeyError", val |-> JNull]
  ELSE [err |-> "", val |-> val.f[key]]

\* val.get(key, default)
Get(val, key, default) ==
  IF val.t # "dict" THEN [err |-> "AttributeError", val |-> JNull]
  ELSE IF key \in DOMAIN val.f THEN [err |-> "", val |-> val.f[key]]
  ELSE [err |-> "", val |-> default]

\* for x in val: a list yields its elements, a dict its keys and a string its
\* characters (strings, so the loop body's x['...'] raises on the first one);
\* anything else is not iterable.
Iterate(val) ==
  CASE val.t = "list" -> [err |-> "", items |-> val.q]
    [] val.t = "dict" ->
         [err |-> "",
          items |-> IF DOMAIN val.f = {} THEN <<>>
                    ELSE <<JStr(CHOOSE key \in DOMAIN val.f : TRUE)>>]
    [] val.t = "str" ->
         [err |-> "", items |-> IF val.s = "" THEN <<>> ELSE <<JStr("c")>>]
    [] OTHER -> [err |-> "TypeError", items |-> <<>>]

(***************************************************************************)
(* Calendar dates: datetime.strptime(s, '%Y-%m-%d') and + timedelta(days). *)
(***************************************************************************)
DigitVal ==
  [c \in {"0", "1", "2", "3", "4", "5", "6", "7", "8", "9"} |->
     CASE c = "0" -> 0 [] c = "1" -> 1 [] c = "2" -> 2 [] c = "3" -> 3
       [] c = "4" -> 4 [] c = "5" -> 5 [] c = "6" -> 6 [] c = "7" -> 7
       [] c = "8" -> 8 [] c = "9" -> 9]

IsDigit(c) == c \in DOMAIN DigitVal

\* The characters of the strings the model hands to strptime.  A string that
\* is not listed has no digits and so never matches the format.
CharsOf ==
  [s \in {"2024-01-01", "2024-02-28", "2023-02-28", "2024-12-31",
          "2024-2-9", "2023-02-29", "01-01-2024"} |->
     CASE s = "2024-01-01" -> <<"2", "0", "2", "4", "-", "0", "1", "-", "0", "1">>
       [] s = "2024-02-28" -> <<"2", "0", "2", "4", "-", "0", "2", "-", "2", "8">>
       [] s = "2023-02-28" -> <<"2", "0", "2", "3", "-", "0", "2", "-", "2", "8">>
       [] s = "2024-12-31" -> <<"2", "0", "2", "4", "-", "1", "2", "-", "3", "1">>
       [] s = "2024-2-9" -> <<"2", "0", "2", "4", "-", "2", "-", "9">>
       [] s = "2023-02-29" -> <<"2", "0", "2", "3", "-", "0", "2", "-", "2", "9">>
       [] s = "01-01-2024" -> <<"0", "1", "-", "0", "1", "-", "2", "0", "2", "4">>]

Chars(s) == IF s \in DOMAIN CharsOf THEN CharsOf[s] ELSE <<"?">>

IsLeap(y) == y % 4 = 0 /\ (y % 100 # 0 \/ y % 400 = 0)

DaysInMonth(y, m) ==
  IF m = 2 THEN (IF IsLeap(y) THEN 29 ELSE 28)
  ELSE IF m \in {4, 6, 9, 11} THEN 30 ELSE 31

Date(y, m, d) == [y |-> y, m |-> m, d |-> d]
NoDate == Date(0, 0, 0)

\* The value of a one- or two-character field of digits (a day may be a
\* space and a digit), or -1.
FieldVal(c, from, to, allowSpace) ==
  IF to = from /\ IsDigit(c[from]) THEN DigitVal[c[from]]
  ELSE IF to = from + 1 /\ IsDigit(c[from]) /\ IsDigit(c[to])
       THEN 10 * DigitVal[c[from]] + DigitVal[c[to]]
  ELSE IF to = from + 1 /\ allowSpace /\ c[from] = " " /\ IsDigit(c[to])
       THEN DigitVal[c[to]]
  ELSE -1

\* %Y is four digits, %m is 1..12 and %d is 1..31, each of the last two in
\* one or two characters; the day must exist in the month.
strptime(c) ==
  LET n == Len(c)
      shaped == /\ n >= 8 /\ n <= 10
                /\ \A i \in 1..4 : IsDigit(c[i])
                /\ c[5] = "-"
                /\ \E j \in {7, 8} : j < n /\ c[j] = "-"
      q == CHOOSE j \in {7, 8} : j < n /\ c[j] = "-"
      y == 1000 * DigitVal[c[1]] + 100 * DigitVal[c[2]]
             + 10 * DigitVal[c[3]] + DigitVal[c[4]]
      m == FieldVal(c, 6, q - 1, FALSE)
      d == FieldVal(c, q + 1, n, TRUE)
  IN  IF shaped /\ y >= 1 /\ m \in 1..12 /\ d >= 1 /\ d <= DaysInMonth(y, m)
      THEN [err |-> "", date |-> Date(y, m, d)]
      ELSE [err |-> "ValueError", date |-> NoDate]

FirstOfNextMonth(dt) ==
  IF dt.m < 12 THEN Date(dt.y, dt.m + 1, 1) ELSE Date(dt.y + 1, 1, 1)

LastOfPrevMonth(dt) ==
  IF dt.m > 1 THEN Date(dt.y, dt.m - 1, DaysInMonth(dt.y, dt.m - 1))
  ELSE Date(dt.y - 1, 12, 31)

RECURSIVE AddDays(_, _)
\* dt + timedelta(days=n), a month at a time; datetime covers the years 1..9999
AddDays(dt, n) ==
  IF dt.y < 1 \/ dt.y > 9999 THEN [err |-> "OverflowError", date |-> NoDate]
  ELSE IF n >= 0 /\ dt.d + n <= DaysInMonth(dt.y, dt.m)
       THEN [err |-> "", date |-> Date(dt.y, dt.m, dt.d + n)]
  ELSE IF n >= 0
       THEN AddDays(FirstOfNextMonth(dt), n - (DaysInMonth(dt.y, dt.m) - dt.d) - 1)
  ELSE IF dt.d + n >= 1 THEN [err |-> "", date |-> Date(dt.y, dt.m, dt.d + n)]
  ELSE AddDays(LastOfPrevMonth(dt), n + dt.d)

(***************************************************************************)
(* The file system: a function from paths to contents.  The watched        *)
(* directory holds the paths json/<name>; the working directory holds the  *)
(* exported images.                                                        *)
(***************************************************************************)
None == <<>>
JsonDir == <<"json", "/">>

\* os.path.join("json", f)
PathJoin(f) == JsonDir \o f

InJsonDir(p) == Len(p) > 2 /\ SubSeq(p, 1, 2) = JsonDir

\* os.listdir("json"), as a set
ListDir(files) == {SubSeq(p, 3, Len(p)) : p \in {q \in DOMAIN files : InJsonDir(q)}}

\* f.endswith('.json')
EndsWithJson(f) == Len(f) > 0 /\ f[Len(f)] = ".json"

\* os.path.basename
BaseName(p) ==
  LET cuts == {i \in 1..Len(p) : p[i] = "/"}
      last_cut == IF cuts = {} THEN 0 ELSE CHOOSE i \in cuts : \A j \in cuts : j <= i
  IN  SubSeq(p, last_cut + 1, Len(p))

RECURSIVE ReplaceJson(_)
\* name.replace('.json', '_gantt_chart.png'): every occurrence is replaced
ReplaceJson(f) ==
  IF f = <<>> THEN <<>>
  ELSE (IF Head(f) = ".json" THEN <<"_gantt_chart", ".png">> ELSE <<Head(f)>>)
         \o ReplaceJson(Tail(f))

\* All orders in which os.listdir may return a set of names
Orders(names) ==
  {q \in [1..Cardinality(names) -> names] : \A i, j \in DOMAIN q : q[i] = q[j] => i = j}

\* The orders that differ in where the .json names stand, one of each
JsonOrders(names) ==
  LET js == {f \in names : Len(f) > 0 /\ f[Len(f)] = ".json"}
      rest == CHOOSE q \in Orders(names \ js) : TRUE
  IN  {q \o rest : q \in Orders(js)}

(***************************************************************************)
(* prepare_gantt_data                                                      *)
(***************************************************************************)
DefaultChartName == JStr("Project Gantt Chart")

FirstErr(errs) ==
  IF \A i \in DOMAIN errs : errs[i] = "" THEN ""
  ELSE errs[CHOOSE i \in DOMAIN errs : errs[i] # "" /\ \A j \in 1..(i - 1) : errs[j] = ""]

NoRow == [Task |-> "", Start |-> NoDate, Finish |-> NoDate,
          CriticalPath |-> "", Section |-> JNull]

\* datetime.strptime(task['start_date'], '%Y-%m-%d')
StartOf(sd) ==
  IF sd.val.t = "str" THEN strptime(Chars(sd.val.s))
  ELSE [err |-> "TypeError", date |-> NoDate]

\* EndOf with the last day counted in: one day too many
EndOfInclusive(st, dd) ==
  IF dd.val.t = "int" THEN AddDays(st.date, dd.val.n + 1)
  ELSE IF dd.val.t = "bool" THEN AddDays(st.date, IF dd.val.b THEN 2 ELSE 1)
  ELSE [err |-> "TypeError", date |-> NoDate]

\* start_date + timedelta(days=duration_days); a bool counts as 0 or 1
EndOf(st, dd) ==
  IF dd.val.t = "int" THEN AddDays(st.date, dd.val.n)
  ELSE IF dd.val.t = "bool" THEN AddDays(st.date, IF dd.val.b THEN 1 ELSE 0)
  ELSE [err |-> "TypeError", date |-> NoDate]

MakeRow(e, tn, st, en, cr, section_name) ==
  IF e # "" THEN [err |-> e, row |-> NoRow]
  ELSE [err |-> "",
        row |-> [Task |-> PyStr(tn.val),
                 Start |-> st.date,
                 Finish |-> en.date,
                 CriticalPath |-> IF Truthy(cr.val) THEN "Critical" ELSE "Non-Critical",
                 Section |-> section_name]]

DatedRow(tn, sd, st, dd, en, cr, section_name) ==
  MakeRow(FirstErr(<<tn.err, sd.err, st.err, dd.err, en.err>>), tn, st, en, cr, section_name)

StartedRow(tn, sd, st, dd, cr, section_name) ==
  DatedRow(tn, sd, st, dd, EndOf(st, dd), cr, section_name)

\* The body of the loop over a section's tasks
TaskRow(task, section_name) ==
  StartedRow(Subscript(task, "task_name"), Subscript(task, "start_date"),
             StartOf(Subscript(task, "start_date")), Subscript(task, "duration_days"),
             Get(task, "is_critical", JBool(FALSE)), section_name)

RECURSIVE TaskRows(_, _, _, _)
RECURSIVE TaskRowsFrom(_, _, _, _, _)
\* The loop over a section's tasks, from the i-th on; r is the i-th row
TaskRowsFrom(tasks, i, section_name, acc, r) ==
  IF r.err # "" THEN [err |-> r.err, rows |-> <<>>]
  ELSE TaskRows(tasks, i + 1, section_name, Append(acc, r.row))

TaskRows(tasks, i, section_name, acc) ==
  IF i > Len(tasks) THEN [err |-> "", rows |-> acc]
  ELSE TaskRowsFrom(tasks, i, section_name, acc, TaskRow(tasks[i], section_name))

RECURSIVE SectionRows(_, _, _)
RECURSIVE SectionRowsFrom(_, _, _)
RECURSIVE SectionTasks(_, _, _, _, _, _)
\* The loop over the sections goes on after the i-th, whose rows end r
SectionRowsFrom(sections, i, r) ==
  IF r.err # "" THEN r ELSE SectionRows(sections, i + 1, r.rows)

\* SectionTasks reading the tasks as section.get('tasks', []) would
SectionTasksLenient(sections, i, acc, sn, ts, it) ==
  IF sn.err # "" THEN [err |-> sn.err, rows |-> <<>>]
  ELSE IF ts.err # "" THEN SectionRowsFrom(sections, i, [err |-> "", rows |-> acc])
  ELSE IF it.err # "" THEN [err |-> it.err, rows |-> <<>>]
  ELSE SectionRowsFrom(sections, i, TaskRows(it.items, 1, sn.val, acc))

\* The i-th section: sn is its name, ts its tasks, it the iteration of them
SectionTasks(sections, i, acc, sn, ts, it) ==
  IF FirstErr(<<sn.err, ts.err, it.err>>) # ""
  THEN [err |-> FirstErr(<<sn.err, ts.err, it.err>>), rows |-> <<>>]
  ELSE SectionRowsFrom(sections, i, TaskRows(it.items, 1, sn.val, acc))

SectionRows(sections, i, acc) ==
  IF i > Len(sections) THEN [err |-> "", rows |-> acc]
  ELSE SectionTasks(sections, i, acc,
                    Subscript(sections[i], "section_name"),
                    Subscript(sections[i], "tasks"),
                    Iterate(Subscript(sections[i], "tasks").val))

ParseError(e) == [err |-> e, rows |-> <<>>, title |-> JNull]

Flattened(r, chart_name) ==
  IF r.err # "" THEN ParseError(r.err)
  ELSE [err |-> "", rows |-> r.rows, title |-> chart_name]

\* prepare_gantt_data once json.load has returned data
Prepared(data) ==
  LET chart_name == Get(data.val, "chart_name", DefaultChartName)
      sections == Get(data.val, "sections", JList(<<>>))
      it == Iterate(sections.val)
      e == FirstErr(<<data.err, chart_name.err, sections.err, it.err>>)
  IN  IF e # "" THEN ParseError(e)
      ELSE Flattened(SectionRows(it.items, 1, <<>>), chart_name.val)

prepare_gantt_data(files, json_file) ==
  IF json_file = None THEN ParseError("TypeError")
  ELSE IF json_file \notin DOMAIN files THEN ParseError("FileNotFoundError")
  ELSE Prepared(json_load(files[json_file]))

(***************************************************************************)
(* create_gantt_figure.  What px.timeline does with no rows at all is the  *)
(* charting library's business: `empty` is its outcome in that case, ""    *)
(* for an empty chart or the exception it raises.                          *)
(***************************************************************************)
NoFigure == [drawn |-> FALSE, rows |-> <<>>, title |-> JNull]

EmptyOutcomes == {"", "ValueError"}

\* The outcomes the library may have for the rows of a file
OutcomesFor(d) == IF d.err = "" /\ d.rows = <<>> THEN EmptyOutcomes ELSE {""}

BuilderOutcomes(files, json_file) == OutcomesFor(prepare_gantt_data(files, json_file))

create_gantt_figure(tasks, chart_title, empty) ==
  IF tasks = <<>> /\ empty # "" THEN [err |-> empty, fig |-> NoFigure]
  ELSE [err |-> "", fig |-> [drawn |-> TRUE, rows |-> tasks, title |-> chart_title]]

(***************************************************************************)
(* load_json_files: one entry per name of the directory that ends in       *)
(* .json, in the order os.listdir gives; each file is parsed for its       *)
(* chart_name, and the first one that does not parse raises.               *)
(***************************************************************************)
RECURSIVE ListEntries(_, _, _, _)
RECURSIVE ListEntry(_, _, _, _, _)
\* The entry of the i-th name, data being json.load of its file
ListEntry(files, order, i, acc, data) ==
  LET name == Get(data.val, "chart_name", FName(order[i]))
      e == FirstErr(<<data.err, name.err>>)
  IN  IF e # "" THEN [err |-> e, json_files |-> <<>>]
      ELSE ListEntries(files, order, i + 1,
                       Append(acc, [file |-> PathJoin(order[i]), name |-> name.val]))

ListEntries(files, order, i, acc) ==
  IF i > Len(order) THEN [err |-> "", json_files |-> acc]
  ELSE IF ~EndsWithJson(order[i]) THEN ListEntries(files, order, i + 1, acc)
  ELSE ListEntry(files, order, i, acc, json_load(files[PathJoin(order[i])]))

load_json_files(files, order) == ListEntries(files, order, 1, <<>>)

\* The dropdown's options built from a listing
OptionsOf(json_files) ==
  [i \in DOMAIN json_files |-> [label |-> json_files[i].name, value |-> json_files[i].file]]

(***************************************************************************)
(* export_chart's file name and pio.write_image                            *)
(***************************************************************************)
\* OutputFilename without os.path.basename: the image lands next to the file
OutputFilenameInPlace(json_file) == ReplaceJson(json_file)

OutputFilename(json_file) == ReplaceJson(BaseName(json_file))

\* The image formats write_image infers from a file name's extension
ImageFormats == {".png", ".jpg", ".jpeg", ".webp", ".svg", ".pdf"}

Image(fig) == <<Token("img", "png", Len(fig.rows))>>

write_image(files, fig, output_filename) ==
  IF output_filename[Len(output_filename)] \in ImageFormats
  THEN [err |-> "", files |-> (output_filename :> Image(fig)) @@ files]
  ELSE [err |-> "ValueError", files |-> files]

NoMessage == [text |-> "none", name |-> <<>>]
EmptyMessage == [text |-> "", name |-> <<>>]
ExportedMessage(output_filename) ==
  [text |-> "Gantt chart exported as", name |-> output_filename]

(***************************************************************************)
(* The three callbacks, as functions of the file system and their inputs.  *)
(* A callback that raises updates none of its outputs.                     *)
(***************************************************************************)
\* update_gantt_chart once prepare_gantt_data has returned d
Drawn(d, empty) ==
  LET f == create_gantt_figure(d.rows, d.title, empty)
  IN  IF d.err # "" THEN [err |-> d.err, stage |-> "parser", fig |-> NoFigure]
      ELSE IF f.err # "" THEN [err |-> f.err, stage |-> "builder", fig |-> NoFigure]
      ELSE [err |-> "", stage |-> "", fig |-> f.fig]

update_gantt_chart(files, json_file, empty) ==
  Drawn(prepare_gantt_data(files, json_file), empty)

\* export_chart once the figure is made: u is the outcome of making it
Exported(files, u, json_file) ==
  LET output_filename == OutputFilename(json_file)
      w == write_image(files, u.fig, output_filename)
  IN  IF u.err # ""
      THEN [err |-> u.err, stage |-> u.stage, files |-> files, message |-> NoMessage]
      ELSE IF w.err # ""
      THEN [err |-> w.err, stage |-> "image", files |-> files, message |-> NoMessage]
      ELSE [err |-> "", stage |-> "", files |-> w.files,
            message |-> ExportedMessage(output_filename)]

export_chart(files, clicks, json_file, empty) ==
  IF clicks = 0
  THEN [err |-> "", stage |-> "", files |-> files, message |-> EmptyMessage]
  ELSE Exported(files, update_gantt_chart(files, json_file, empty), json_file)

\* An upload as the browser sends it: the two parts of contents.split(',');
\* the payload is the base64 of a text, or of bytes that are not UTF-8.
Payload(text) == [content_type |-> "data:application/json;base64",
                  content_string |-> [utf8 |-> TRUE, text |-> text]]
BinaryPayload == [content_type |-> "data:application/octet-stream;base64",
                  content_string |-> [utf8 |-> FALSE, text |-> <<>>]]

\* contents is None: the callback as the page calls it before any upload
NoContents == [content_type |-> "", content_string |-> [utf8 |-> TRUE, text |-> <<>>]]

\* base64.b64decode(content_string).decode("utf-8")
Decode(content_string) ==
  IF content_string.utf8 THEN [err |-> "", decoded |-> content_string.text]
  ELSE [err |-> "UnicodeDecodeError", decoded |-> <<>>]

\* open(file_path, "w"): the file is created or truncated
OpenTruncate(files, file_path) == (file_path :> <<>>) @@ files

\* The buffered text reaches the file when it is closed: it is written from
\* the start of the file, over whatever the file holds then.
FlushAtClose(files, file_path, data) ==
  (file_path :> (data \o SubSeq(files[file_path], Len(data) + 1, Len(files[file_path]))))
    @@ files

\* with open(file_path, "w") as file: file.write(decoded)
WriteFile(files, file_path, decoded) ==
  FlushAtClose(OpenTruncate(files, file_path), file_path, decoded)

\* The options and the value upload_json returns for the listing l
Refreshed(l, file_path) ==
  IF l.err # "" THEN [err |-> l.err, stage |-> "listing", options |-> <<>>, value |-> None]
  ELSE [err |-> "", stage |-> "", options |-> OptionsOf(l.json_files), value |-> file_path]

\* The rest of upload_json after the file is closed
Rescan(files, file_path, order) == Refreshed(load_json_files(files, order), file_path)

NoUpdate(err, stage, files) ==
  [err |-> err, stage |-> stage, files |-> files, update |-> FALSE,
   options |-> <<>>, value |-> None]

\* upload_json's result: written is the file system after the write, r the rescan
Returned(written, r) ==
  IF r.err # "" THEN NoUpdate(r.err, r.stage, written)
  ELSE [err |-> "", stage |-> "", files |-> written, update |-> TRUE,
        options |-> r.options, value |-> r.value]

Saved(written, file_path, order) == Returned(written, Rescan(written, file_path, order))

\* upload_json as one step; order is the order os.listdir gives afterwards
upload_json(files, contents, filename, order) ==
  IF contents = NoContents THEN NoUpdate("", "", files)
  ELSE IF Decode(contents.content_string).err # ""
  THEN NoUpdate(Decode(contents.content_string).err, "decode", files)
  ELSE Saved(WriteFile(files, PathJoin(filename), Decode(contents.content_string).decoded),
             PathJoin(filename), order)

(***************************************************************************)
(* Inputs                                                                  *)
(***************************************************************************)
RECURSIVE Join(_)
Join(parts) ==
  IF parts = <<>> THEN <<>>
  ELSE IF Len(parts) = 1 THEN parts[1]
  ELSE parts[1] \o <<P(",")>> \o Join(Tail(parts))

Member(key, toks) == <<S(key), P(":")>> \o toks
Obj(members) == <<P("{")>> \o Join(members) \o <<P("}")>>
Arr(elements) == <<P("[")>> \o Join(elements) \o <<P("]")>>

\* crit: 0 leaves is_critical out, 1 is true, 2 is false
TaskText(name, date, days, crit) ==
  Obj(<<Member("task_name", <<S(name)>>),
        Member("start_date", <<S(date)>>),
        Member("duration_days", <<N(days)>>)>>
      \o (IF crit = 0 THEN <<>>
          ELSE <<Member("is_critical", <<L(IF crit = 1 THEN "true" ELSE "false")>>)>>))

SectionText(name, tasks) ==
  Obj(<<Member("section_name", <<S(name)>>), Member("tasks", Arr(tasks))>>)

\* The scenario document of the specification
LaunchText ==
  Obj(<<Member("chart_name", <<S("Launch")>>),
        Member("sections",
               Arr(<<SectionText("Prep", <<TaskText("Design", "2024-01-01", 5, 1)>>)>>))>>)

\* A short document with one zero-length task and no chart_name
PointText ==
  Obj(<<Member("sections",
               Arr(<<SectionText("Ops", <<TaskText("Go", "2024-2-9", 0, 0)>>)>>))>>)

\* No "sections" key
SoloText == Obj(<<Member("chart_name", <<S("Solo")>>)>>)

\* A section without "tasks"
NoTasksText ==
  Obj(<<Member("chart_name", <<S("Bare")>>),
        Member("sections", Arr(<<Obj(<<Member("section_name", <<S("Prep")>>)>>)>>))>>)

\* A section without "section_name"
NoNameText ==
  Obj(<<Member("sections",
               Arr(<<Obj(<<Member("tasks", Arr(<<TaskText("Design", "2024-01-01", 5, 0)>>))>>)>>))>>)

\* A second section without "tasks", after a complete one
LateNoTasksText ==
  Obj(<<Member("sections",
               Arr(<<SectionText("Prep", <<TaskText("Design", "2024-01-01", 5, 0)>>),
                     Obj(<<Member("section_name", <<S("Build")>>)>>)>>))>>)

\* "sections" is null
NullSectionsText == Obj(<<Member("sections", <<L("null")>>)>>)

\* A day that does not exist
NoSuchDayText ==
  Obj(<<Member("sections",
               Arr(<<SectionText("Prep", <<TaskText("Design", "2023-02-29", 1, 0)>>)>>))>>)

\* A date in the wrong format
BadDateText ==
  Obj(<<Member("sections",
               Arr(<<SectionText("Prep", <<TaskText("Design", "01-01-2024", 5, 0)>>)>>))>>)

BrokenText == <<P("{"), S("chart_name")>>
EmptyText == <<>>
ListText == Arr(<<>>)

\* The texts uploaded
Texts == {LaunchText, PointText, BrokenText, EmptyText, ListText}
RaceTexts == {LaunchText, PointText, SoloText}

PlanJson == <<"plan", ".json">>
PlanJsonJson == <<"plan", ".json", ".json">>
NotesTxt == <<"notes", ".txt">>
Filenames == {PlanJson, PlanJsonJson, NotesTxt}

Sessions == {"s1", "s2"}

(***************************************************************************)
(* State                                                                   *)
(***************************************************************************)
VARIABLES
  fs,        \* the file system
  loaded,    \* loaded[s]: the page of session s has made its first callbacks
  options,   \* options[s]: the dropdown's options
  value,     \* value[s]: the dropdown's value, a path or None
  figure,    \* figure[s]: the chart shown
  message,   \* message[s]: the export message shown
  n_clicks,  \* n_clicks[s]: clicks of the export button
  last,      \* last[s]: the last interaction of s and how it ended
  pc,        \* pc[s]: where the upload of s in progress stands
  buf,       \* buf[s]: the path and text of the upload of s in progress
  nops       \* interactions made so far

vars == <<fs, loaded, options, value, figure, message, n_clicks, last, pc, buf, nops>>

Outcome(op, err, stage) == [op |-> op, err |-> err, stage |-> stage]
NoBuf == [file_path |-> None, decoded |-> <<>>, pending |-> <<>>]

\* The directories the application may be started on
InitialDirs == {<<>>, (PathJoin(PlanJson) :> LaunchText)}

\* json_files = load_json_files() and app.layout: the options and the value
\* every page starts from are those of the listing taken at start-up.
Started(dir, l) ==
      /\ l.err = ""
      /\ fs = dir
      /\ options = [s \in Sessions |-> OptionsOf(l.json_files)]
      /\ value = [s \in Sessions |->
                    IF l.json_files # <<>> THEN l.json_files[1].file ELSE None]
      /\ loaded = [s \in Sessions |-> FALSE]
      /\ figure = [s \in Sessions |-> NoFigure]
      /\ message = [s \in Sessions |-> NoMessage]
      /\ n_clicks = [s \in Sessions |-> 0]
      /\ last = [s \in Sessions |-> Outcome("none", "", "")]
      /\ pc = [s \in Sessions |-> "idle"]
      /\ buf = [s \in Sessions |-> NoBuf]
      /\ nops = 0

InitWith(dir, order) == Started(dir, load_json_files(dir, order))

Init == \E dir \in InitialDirs : \E order \in JsonOrders(ListDir(dir)) : InitWith(dir, order)

Uploads == {Payload(t) : t \in Texts} \cup {BinaryPayload}
RaceUploads == {Payload(t) : t \in RaceTexts}

OptionValues(s) == {options[s][i].value : i \in DOMAIN options[s]}

\* What the user can make the dropdown's value: one of the options; the
\* chart is also drawn again for the current value when an upload sets it.
Selectable(s) == OptionValues(s) \cup ({value[s]} \ {None})

Idle(s) == loaded[s] /\ pc[s] = "idle"

(***************************************************************************)
(* Actions: each interaction of a session is one callback.                 *)
(***************************************************************************)
\* The page is opened: Dash calls every callback once, with the layout's
\* value, no click and no upload.
Loaded(s, u, e, up) ==
  /\ loaded' = [loaded EXCEPT ![s] = TRUE]
  /\ figure' = [figure EXCEPT ![s] = IF u.err = "" THEN u.fig ELSE @]
  /\ message' = [message EXCEPT ![s] = e.message]
  /\ options' = [options EXCEPT ![s] = IF up.update THEN up.options ELSE @]
  /\ value' = [value EXCEPT ![s] = IF up.update THEN up.value ELSE @]
  /\ last' = [last EXCEPT ![s] = Outcome("load", u.err, u.stage)]
  /\ fs' = up.files

Load(s) ==
  /\ ~loaded[s]
  /\ \E empty \in BuilderOutcomes(fs, value[s]) :
       Loaded(s, update_gantt_chart(fs, value[s], empty),
              export_chart(fs, n_clicks[s], value[s], empty),
              upload_json(fs, NoContents, None, <<>>))
  /\ UNCHANGED <<n_clicks, pc, buf, nops>>

Selected(s, json_file, u) ==
  /\ value' = [value EXCEPT ![s] = json_file]
  /\ figure' = [figure EXCEPT ![s] = IF u.err = "" THEN u.fig ELSE @]
  /\ last' = [last EXCEPT ![s] = Outcome("select", u.err, u.stage)]

Select(s) ==
  /\ Idle(s)
  /\ nops < MaxOps
  /\ \E json_file \in Selectable(s) : \E empty \in BuilderOutcomes(fs, json_file) :
       Selected(s, json_file, update_gantt_chart(fs, json_file, empty))
  /\ nops' = nops + 1
  /\ UNCHANGED <<fs, loaded, options, message, n_clicks, pc, buf>>

Clicked(s, e) ==
  /\ fs' = e.files
  /\ message' = [message EXCEPT ![s] = IF e.err = "" THEN e.message ELSE @]
  /\ last' = [last EXCEPT ![s] = Outcome("export", e.err, e.stage)]

Export(s) ==
  /\ Idle(s)
  /\ nops < MaxOps
  /\ \E empty \in BuilderOutcomes(fs, value[s]) :
       Clicked(s, export_chart(fs, n_clicks[s] + 1, value[s], empty))
  /\ n_clicks' = [n_clicks EXCEPT ![s] = @ + 1]
  /\ nops' = nops + 1
  /\ UNCHANGED <<loaded, options, value, figure, pc, buf>>

Sent(s, up) ==
  /\ fs' = up.files
  /\ options' = [options EXCEPT ![s] = IF up.update THEN up.options ELSE @]
  /\ value' = [value EXCEPT ![s] = IF up.update THEN up.value ELSE @]
  /\ last' = [last EXCEPT ![s] = Outcome("upload", up.err, up.stage)]

UploadWith(s, filename, contents) ==
  \E order \in JsonOrders(ListDir(fs) \cup {filename}) :
    Sent(s, upload_json(fs, contents, filename, order))

Upload(s) ==
  /\ Idle(s)
  /\ nops < MaxOps
  /\ \E filename \in Filenames : \E contents \in Uploads : UploadWith(s, filename, contents)
  /\ nops' = nops + 1
  /\ UNCHANGED <<loaded, figure, message, n_clicks, pc, buf>>

Next == \E s \in Sessions : Load(s) \/ Select(s) \/ Upload(s) \/ Export(s)

Spec == Init /\ [][Next]_vars

(***************************************************************************)
(* Uploads of several sessions at once: the server runs each callback on   *)
(* a thread of its own, so the steps of upload_json interleave.            *)
(***************************************************************************)
UploadOpen(s) ==
  /\ Idle(s)
  /\ nops < MaxRaceOps
  /\ \E filename \in Filenames : \E contents \in RaceUploads :
       LET d == Decode(contents.content_string)
           file_path == PathJoin(filename)
       IN  /\ d.err = ""
           /\ fs' = OpenTruncate(fs, file_path)
           /\ buf' = [buf EXCEPT ![s] =
                        [file_path |-> file_path, decoded |-> d.decoded, pending |-> <<>>]]
  /\ pc' = [pc EXCEPT ![s] = "opened"]
  /\ nops' = nops + 1
  /\ UNCHANGED <<loaded, options, value, figure, message, n_clicks, last>>

\* file.write(decoded): the text waits in the file object's buffer
UploadWrite(s) ==
  /\ pc[s] = "opened"
  /\ buf' = [buf EXCEPT ![s].pending = buf[s].decoded]
  /\ pc' = [pc EXCEPT ![s] = "written"]
  /\ UNCHANGED <<fs, loaded, options, value, figure, message, n_clicks, last, nops>>

\* leaving the with block closes the file and flushes the buffer
UploadClose(s) ==
  /\ pc[s] = "written"
  /\ fs' = FlushAtClose(fs, buf[s].file_path, buf[s].pending)
  /\ pc' = [pc EXCEPT ![s] = "closed"]
  /\ UNCHANGED <<buf, loaded, options, value, figure, message, n_clicks, last, nops>>

Rescanned(s, r) ==
  /\ options' = [options EXCEPT ![s] = IF r.err = "" THEN r.options ELSE @]
  /\ value' = [value EXCEPT ![s] = IF r.err = "" THEN r.value ELSE @]
  /\ last' = [last EXCEPT ![s] = Outcome("upload", r.err, r.stage)]

UploadRescan(s) ==
  /\ pc[s] = "closed"
  /\ \E order \in JsonOrders(ListDir(fs)) :
       Rescanned(s, Rescan(fs, buf[s].file_path, order))
  /\ pc' = [pc EXCEPT ![s] = "idle"]
  /\ buf' = [buf EXCEPT ![s] = NoBuf]
  /\ UNCHANGED <<fs, loaded, figure, message, n_clicks, nops>>

NextRace ==
  \E s \in Sessions :
    Load(s) \/ UploadOpen(s) \/ UploadWrite(s) \/ UploadClose(s) \/ UploadRescan(s)

SpecRace == Init /\ [][NextRace]_vars

(***************************************************************************)
(* The parser on a range of documents: the application is started on a     *)
(* directory holding one document, which the sessions select and export.   *)
(***************************************************************************)
StartDates == <<"2024-01-01", "2024-02-28", "2023-02-28", "2024-12-31", "2024-2-9">>
Durations == <<0, 1, 5, 31, 366>>
SectionNames == <<"Prep", "Build", "Ship", "Wrap">>
TaskNames == <<<<"Design", "Review", "Plan", "Budget">>,
               <<"Code", "Test", "Fix", "Merge">>,
               <<"Pack", "Deploy", "Announce", "Watch">>,
               <<"Retro", "Report", "Archive", "Party">>>>

RECURSIVE SumOf(_)
SumOf(q) == IF q = <<>> THEN 0 ELSE Head(q) + SumOf(Tail(q))

\* The task counts of the sections of a document: at most MaxSections
\* sections and MaxTasks tasks in all
Shapes ==
  {sh \in UNION {[1..n -> 0..MaxTasks] : n \in 0..MaxSections} : SumOf(sh) <= MaxTasks}

Pick(table, k) == table[(k % Len(table)) + 1]

\* The document of shape sh whose dates, durations and flags start at a, b
DocText(sh, a, b) ==
  Obj((IF a % 2 = 1 THEN <<Member("chart_name", <<S("Plan")>>)>> ELSE <<>>)
      \o <<Member("sections",
             Arr([i \in DOMAIN sh |->
                   SectionText(SectionNames[i],
                     [j \in 1..sh[i] |->
                        TaskText(TaskNames[i][j], Pick(StartDates, a + i + j),
                                 Pick(Durations, b + 2 * i + j), (a + b + j) % 3)])]))>>)

ValidTexts ==
  {DocText(sh, a, b) : sh \in Shapes, a \in 1..Len(StartDates), b \in 1..Len(Durations)}

MalformedTexts == {SoloText, NoTasksText, LateNoTasksText, NoNameText, NullSectionsText,
                   BadDateText, NoSuchDayText}

InitParse ==
  \E text \in ValidTexts \cup MalformedTexts :
    InitWith((PathJoin(PlanJson) :> text), <<PlanJson>>)

NextParse == \E s \in Sessions : Load(s) \/ Select(s) \/ Export(s)

SpecParse == InitParse /\ [][NextParse]_vars

(***************************************************************************)
(* Properties                                                              *)
(***************************************************************************)
JsonNames(files) == {f \in ListDir(files) : EndsWithJson(f)}

\* The files of the watched directory and what they hold
JsonFiles(files) == [p \in {q \in DOMAIN files : InJsonDir(q)} |-> files[p]]

\* The file does not parse as a JSON object
Unparsable(files, f) ==
  \/ json_load(files[PathJoin(f)]).err # ""
  \/ json_load(files[PathJoin(f)]).val.t # "dict"

EntriesFor(l, f) == {i \in DOMAIN l.json_files : l.json_files[i].file = PathJoin(f)}

\* The listing l has one entry for each .json file, and a file that does
\* not parse is shown under its own name
CompleteListing(files, l) ==
  /\ l.err = ""
  /\ Len(l.json_files) = Cardinality(JsonNames(files))
  /\ \A f \in JsonNames(files) :
       /\ Cardinality(EntriesFor(l, f)) = 1
       /\ Unparsable(files, f) =>
            \A i \in EntriesFor(l, f) : l.json_files[i].name = FName(f)

\* C1: the listing never fails because of one bad file: whatever the
\* directory holds, load_json_files returns one entry for every .json file,
\* and the entry of a file that cannot be parsed carries its file name.
C1_ListingNeverFails ==
  \A order \in Orders(ListDir(fs)) : CompleteListing(fs, load_json_files(fs, order))

\* C2: an upload is not validated: whatever text is uploaded under whatever
\* name, the upload completes without error, the file holds the text, the
\* options are the refreshed listing and the value is the uploaded path.
C2_UploadNeverFails ==
  [][\A s \in Sessions : \A filename \in Filenames : \A contents \in Uploads :
       (contents.content_string.utf8 /\ Idle(s) /\ nops' = nops + 1
          /\ UploadWith(s, filename, contents))
       => /\ last'[s].err = ""
          /\ fs'[PathJoin(filename)] = contents.content_string.text
          /\ value'[s] = PathJoin(filename)
          /\ \E order \in Orders(ListDir(fs')) :
               /\ load_json_files(fs', order).err = ""
               /\ options'[s] = OptionsOf(load_json_files(fs', order).json_files)]_vars

\* What another session would get from the files: the rows of every file it
\* can select, and whether an upload of its own goes through
UploadSucceeds(files, filename, contents) ==
  \E order \in JsonOrders(ListDir(files) \cup {filename}) :
    upload_json(files, contents, filename, order).err = ""

\* C3: a failure is terminal for the one interaction it occurs in: when a
\* Select, Upload or Export of a session fails, its chart and options stay
\* as they were, and whatever another session could select or upload with
\* success before, it can afterwards, with the same result.
C3_FailureIsLocal ==
  [][\A s \in Sessions :
       ((Select(s) \/ Upload(s) \/ Export(s)) /\ last'[s].err # "")
       => /\ figure'[s] = figure[s]
          /\ options'[s] = options[s]
          /\ \A p \in DOMAIN JsonFiles(fs) :
               prepare_gantt_data(fs, p).err = ""
                 => prepare_gantt_data(fs', p) = prepare_gantt_data(fs, p)
          /\ \A filename \in Filenames : \A contents \in Uploads :
               UploadSucceeds(fs, filename, contents)
                 => UploadSucceeds(fs', filename, contents)]_vars

(***************************************************************************)
(* C4 and C5 are about the parser: SpecParse, where the one document of    *)
(* the directory never changes, so that a chart drawn is drawn from it.    *)
(***************************************************************************)
DocOf(s) == json_load(fs[value[s]]).val

Parsed(s) == last[s].op \in {"load", "select"}

IsStr(val) == val.t = "str"

ValidTask(task) ==
  /\ task.t = "dict"
  /\ {"task_name", "start_date", "duration_days"} \subseteq DOMAIN task.f
  /\ IsStr(task.f["task_name"])
  /\ IsStr(task.f["start_date"])
  /\ strptime(Chars(task.f["start_date"].s)).err = ""
  /\ task.f["duration_days"].t = "int"
  /\ task.f["duration_days"].n >= 0
  /\ "is_critical" \in DOMAIN task.f => task.f["is_critical"].t = "bool"

ValidSection(section) ==
  /\ section.t = "dict"
  /\ {"section_name", "tasks"} \subseteq DOMAIN section.f
  /\ IsStr(section.f["section_name"])
  /\ section.f["tasks"].t = "list"
  /\ \A j \in DOMAIN section.f["tasks"].q : ValidTask(section.f["tasks"].q[j])

\* A schedule document as section 6 of the specification describes it
ValidDoc(doc) ==
  /\ doc.t = "dict"
  /\ "chart_name" \in DOMAIN doc.f => IsStr(doc.f["chart_name"])
  /\ "sections" \in DOMAIN doc.f
  /\ doc.f["sections"].t = "list"
  /\ \A i \in DOMAIN doc.f["sections"].q : ValidSection(doc.f["sections"].q[i])

TasksOf(doc, i) == doc.f["sections"].q[i].f["tasks"].q

RECURSIVE TasksBefore(_, _)
\* The number of tasks in the sections before the i-th
TasksBefore(doc, i) ==
  IF i = 1 THEN 0 ELSE TasksBefore(doc, i - 1) + Len(TasksOf(doc, i - 1))

DaysBeforeMonth == <<0, 31, 59, 90, 120, 151, 181, 212, 243, 273, 304, 334>>

\* The number of the day in the proleptic Gregorian calendar
Ordinal(dt) ==
  365 * (dt.y - 1) + ((dt.y - 1) \div 4) - ((dt.y - 1) \div 100) + ((dt.y - 1) \div 400)
    + DaysBeforeMonth[dt.m]
    + (IF dt.m > 2 /\ dt.y % 4 = 0 /\ (dt.y % 100 # 0 \/ dt.y % 400 = 0) THEN 1 ELSE 0)
    + dt.d

RowsMatch(rows, doc) ==
  /\ Len(rows) = TasksBefore(doc, Len(doc.f["sections"].q) + 1)
  /\ \A i \in DOMAIN doc.f["sections"].q : \A j \in DOMAIN TasksOf(doc, i) :
       /\ rows[TasksBefore(doc, i) + j].Task = TasksOf(doc, i)[j].f["task_name"].s
       /\ rows[TasksBefore(doc, i) + j].Section = doc.f["sections"].q[i].f["section_name"]
       /\ Ordinal(rows[TasksBefore(doc, i) + j].Finish)
            = Ordinal(rows[TasksBefore(doc, i) + j].Start)
                + TasksOf(doc, i)[j].f["duration_days"].n
       /\ TasksOf(doc, i)[j].f["duration_days"].n = 0
            => rows[TasksBefore(doc, i) + j].Finish = rows[TasksBefore(doc, i) + j].Start

\* C4: for a valid schedule document the parser does not fail and returns
\* one row per task, in the order of the document, each with the name of its
\* section and with Finish duration_days calendar days after Start (the same
\* day when duration_days is 0).
C4_OneRowPerTask ==
  \A s \in Sessions :
    (Parsed(s) /\ ValidDoc(DocOf(s)))
    => /\ last[s].stage # "parser"
       /\ last[s].err = "" => figure[s].drawn
       /\ figure[s].drawn => RowsMatch(figure[s].rows, DocOf(s))

\* A chart of two sections, with a task of no length and a task that ends in
\* another month than it starts
C4_Witness ==
  \E s \in Sessions :
    /\ Parsed(s) /\ ValidDoc(DocOf(s)) /\ figure[s].drawn
    /\ \E i, j \in DOMAIN figure[s].rows :
         /\ figure[s].rows[i].Section # figure[s].rows[j].Section
         /\ figure[s].rows[i].Finish = figure[s].rows[i].Start
         /\ figure[s].rows[j].Finish.m # figure[s].rows[j].Start.m

LacksSections(doc) == doc.t = "dict" /\ "sections" \notin DOMAIN doc.f

LacksTasks(doc) ==
  /\ doc.t = "dict"
  /\ "sections" \in DOMAIN doc.f
  /\ doc.f["sections"].t = "list"
  /\ \E i \in DOMAIN doc.f["sections"].q :
       \/ doc.f["sections"].q[i].t # "dict"
       \/ "tasks" \notin DOMAIN doc.f["sections"].q[i].f

TitleOf(doc) ==
  IF "chart_name" \in DOMAIN doc.f THEN doc.f["chart_name"] ELSE DefaultChartName

\* C5 as the specification has it: the parser fails whenever "sections" is
\* absent or a section has no "tasks", the Select fails and no chart is made.
C5_MalformedFails ==
  \A s \in Sessions :
    (Parsed(s) /\ (LacksSections(DocOf(s)) \/ LacksTasks(DocOf(s))))
    => /\ last[s].err # ""
       /\ last[s].stage = "parser"
       /\ ~figure[s].drawn

\* C5, amended: the parser fails whenever a section of the "sections" array
\* has no "tasks", and then the Select fails and no chart is made; when
\* "sections" is absent the parser does not fail: it returns no rows and the
\* chart's title, and a chart that is made of them has no rows.
C5_MissingTasksFails ==
  \A s \in Sessions :
    /\ (Parsed(s) /\ LacksTasks(DocOf(s)))
       => /\ last[s].err # ""
          /\ last[s].stage = "parser"
          /\ ~figure[s].drawn
    /\ (Parsed(s) /\ LacksSections(DocOf(s)))
       => /\ last[s].stage # "parser"
          /\ last[s].err = "" => figure[s].drawn
          /\ figure[s].drawn
               => figure[s].rows = <<>> /\ figure[s].title = TitleOf(DocOf(s))

\* A Select of a document whose second section has no tasks has failed
C5_Witness ==
  \E s \in Sessions :
    /\ last[s].op = "select"
    /\ last[s].err = "KeyError"
    /\ LacksTasks(DocOf(s))
    /\ Len(DocOf(s).f["sections"].q) > 1
    /\ ~figure[s].drawn

\* C6: an upload under a name ending in .json leaves exactly one entry for
\* that path in the listing, and the entry shows the text just uploaded.
C6_OneEntryPerUpload ==
  [][\A s \in Sessions : \A filename \in Filenames : \A contents \in Uploads :
       (contents.content_string.utf8 /\ EndsWithJson(filename) /\ Idle(s)
          /\ nops' = nops + 1 /\ UploadWith(s, filename, contents))
       => \A order \in Orders(ListDir(fs')) :
            /\ load_json_files(fs', order).err = ""
            /\ Cardinality(EntriesFor(load_json_files(fs', order), filename)) = 1
            /\ fs'[PathJoin(filename)] = contents.content_string.text]_vars

\* The texts a file of the directory can hold whole
WholeTexts == RaceTexts \cup {LaunchText}

\* C7: uploads that race have last-writer-wins semantics: once they are
\* over, every file holds the whole text of one upload, never an empty, a
\* truncated or a mixed one.
C7_LastWriterWins ==
  (\A s \in Sessions : pc[s] = "idle")
    => \A p \in DOMAIN JsonFiles(fs) : fs[p] \in WholeTexts

Extensions == {".json", ".txt", ".png"}

\* The name without its extension
StripExt(f) ==
  IF Len(f) > 1 /\ f[Len(f)] \in Extensions THEN SubSeq(f, 1, Len(f) - 1) ELSE f

ExpectedImage(json_file) == StripExt(BaseName(json_file)) \o <<"_gantt_chart", ".png">>

\* C8: an export that succeeds writes the image <name without
\* extension>_gantt_chart.png and the message names that file; the message
\* is empty as long as no export was asked for.
C8_ExportName ==
  \A s \in Sessions :
    /\ n_clicks[s] = 0 => message[s] \in {NoMessage, EmptyMessage}
    /\ (last[s].op = "export" /\ last[s].err = "")
       => /\ message[s] = ExportedMessage(ExpectedImage(value[s]))
          /\ ExpectedImage(value[s]) \in DOMAIN fs

\* C9: only Upload writes to the watched directory: a Select and an Export,
\* whether they succeed or fail, leave its files and what they hold as they
\* were, and an Export leaves the value and the options as they were too.
C9_OnlyUploadWrites ==
  [][\A s \in Sessions :
       /\ (Load(s) \/ Select(s) \/ Export(s)) => JsonFiles(fs') = JsonFiles(fs)
       /\ Export(s) => value' = value /\ options' = options]_vars

\* One session has exported an image and a session has selected a file
C9_Witness ==
  \E s, t \in Sessions :
    /\ last[s].op = "export" /\ last[s].err = ""
    /\ \E p \in DOMAIN fs : ~InJsonDir(p)
    /\ last[t].op = "select"

\* C10: the value of the dropdown is one of its options, or is None when
\* there are no options.
C10_ValueAmongOptions ==
  \A s \in Sessions :
    \/ value[s] \in OptionValues(s)
    \/ value[s] = None /\ options[s] = <<>>
====
